---- MODULE Spec2Model ----
(***************************************************************************)
(* DSimpleListView (src/src/widgets/dsimplelistview.cpp): the custom       *)
(* painted list view of dtkwidget, as a state machine.  One action per     *)
(* event handler or public operation; a handler that ends in repaint()     *)
(* includes the state effect of the synchronous paintEvent.                *)
(*                                                                         *)
(* Items are pointers (DSimpleListItem* ): small integers here, 0 is the   *)
(* null pointer.  Indices of QList are 0-based as in the source; At and    *)
(* IndexOf convert to the 1-based sequences of TLA+.                       *)
(***************************************************************************)
EXTENDS Integers, Sequences, FiniteSets, TLC

\* ------------------------------------------------------------------ bounds
MaxItems == 3
MaxSortingOrderes == 2
MaxPagesBelow == 3

\* ------------------------------------------------------- program constants
scrollbarDragWidth == 8
scrollbarMinHeight == 30
WheelNotch == 120
DefaultRowHeight == 36

\* ------------------------------------------------- inputs of the behaviours
NULL == 0
Items == 1..MaxItems
RowHeights == {20}
Heights == {35}
Widths == {100}
\* setColumnTitleInfo / setColumnHideFlags: no title bar, or two columns
\* (one fixed, one auto width) under a title bar
ColumnConfigs ==
    {[titleHeight |-> 0, columnWidths |-> <<>>, columnVisibles |-> <<>>],
     [titleHeight |-> 10, columnWidths |-> <<60, -1>>, columnVisibles |-> <<TRUE, TRUE>>]}
AlgorithmCounts == {2}
KeepFlags == {FALSE}
SearchAlgorithms == {TRUE}
SortColumns == {-1, 0, 1, 2}
Contents == {"", "a"}
WheelDeltas == {-120, 60}
MouseXs == {30, 80, 95}
MouseYs == {0, 5, 15, 33}
Buttons == {"Left", "Right"}
Modifiers == {"None", "Ctrl", "Shift"}
Keys == {"Home", "End", "Up", "Down", "PageUp", "PageDown", "A"}
UBInts == {-2147483647 - 1, 0, 2147483647}

VARIABLES
    \* configuration, fixed once the widget is set up
    rowHeight, scrollUnit, titleHeight, height, width,
    columnWidths, columnVisibles, isSingleSelect, isKeepSelectWhenClickBlank,
    searchAlgorithm,
    \* DSimpleListViewPrivate
    listItems, renderItems, selectionItems, lastSelectItem,
    lastHoverItem, lastHoverColumnIndex,
    searchContent,
    sortingAlgorithms, sortingOrderes, defaultSortingColumn, defaultSortingOrder,
    renderOffset, oldRenderOffset,
    mouseAtScrollArea, mouseDragScrollbar,
    hideScrollbarTimer,
    \* TRUE once renderItems or sortingAlgorithms was indexed out of range
    outOfRange,
    \* name of the last handler that ran
    lastOp,
    \* DPageIndicatorPrivate
    pageCount, currentPage

cfgVars == <<rowHeight, scrollUnit, titleHeight, height, width, columnWidths,
             columnVisibles, isSingleSelect, isKeepSelectWhenClickBlank,
             searchAlgorithm>>
itemVars == <<listItems, renderItems>>
selVars == <<selectionItems, lastSelectItem>>
hoverVars == <<lastHoverItem, lastHoverColumnIndex>>
sortVars == <<sortingAlgorithms, sortingOrderes, defaultSortingColumn,
              defaultSortingOrder>>
offVars == <<renderOffset, oldRenderOffset>>
mouseVars == <<mouseAtScrollArea, mouseDragScrollbar>>
pageVars == <<pageCount, currentPage>>
viewVars == <<cfgVars, itemVars, selVars, hoverVars, searchContent, sortVars,
              offVars, mouseVars, hideScrollbarTimer, outOfRange>>
vars == <<cfgVars, itemVars, selVars, hoverVars, searchContent, sortVars,
          offVars, mouseVars, hideScrollbarTimer, outOfRange, lastOp, pageVars>>

\* ------------------------------------------------------------ arithmetic
Min(a, b) == IF a < b THEN a ELSE b
Max(a, b) == IF a > b THEN a ELSE b
Abs(a) == IF a < 0 THEN -a ELSE a

\* C++ int / int: the quotient truncated toward zero (b > 0)
CDiv(a, b) == IF a >= 0 THEN a \div b ELSE -((-a) \div b)

\* Arguments (a, b, c) in the geometries of this model for which the
\* binary64 evaluation of (a / (b * 1.0)) * c falls just below its exact
\* integer value, so that the conversion to int yields one less.
RoundsBelow == {<<290, 1000, 100>>, <<570, 1000, 100>>, <<580, 1000, 100>>}

\* static_cast<int>((a / (b * 1.0)) * c + d) for b > 0: truncation toward
\* zero of the double; ub is the outcome of the conversion when b = 0
\* (the double is then infinite or NaN and the conversion is undefined).
DoubleToInt(a, b, c, d, ub) ==
    IF b = 0 THEN ub
    ELSE IF <<a, b, c>> \in RoundsBelow THEN CDiv(a * c, b) + d - 1
    ELSE IF a * c >= 0 \/ d = 0 THEN CDiv(a * c, b) + d
    ELSE LET n == a * c + d * b IN CDiv(n, b)

\* ------------------------------------------------------------ QList helpers
Range(s) == {s[i] : i \in 1..Len(s)}
At(s, i) == s[i + 1]
InRange(s, i) == i >= 0 /\ i < Len(s)
\* QList::indexOf: first position of x, -1 when absent
IndexOf(s, x) ==
    IF \E i \in 1..Len(s) : s[i] = x
    THEN (CHOOSE i \in 1..Len(s) : s[i] = x /\ \A j \in 1..(i - 1) : s[j] # x) - 1
    ELSE -1
\* QList::removeOne: removes the first occurrence
RemoveOne(s, x) ==
    LET i == IndexOf(s, x) IN
    IF i = -1 THEN s ELSE SubSeq(s, 1, i) \o SubSeq(s, i + 2, Len(s))

\* ------------------------------------------------------- user callbacks
\* DSimpleListItem::sameAs: items compare equal by content, here the parity
\* of the pointer value, so that two distinct items can be the same.
SameAs(a, b) == a # NULL /\ b # NULL /\ (a % 2) = (b % 2)

\* The registered SearchAlgorithm(item, content)
Matches(item, content) == content = "a" /\ item % 2 = 1

\* The per-column sort key behind the registered SortAlgorithm; a total
\* order on items in each column.
Key(column, item) == IF column = 0 THEN item ELSE (item % 2) * 1000 + item
SortAlgorithm(column, item1, item2, descendingSort) ==
    IF descendingSort THEN Key(column, item1) > Key(column, item2)
    ELSE Key(column, item1) < Key(column, item2)


\* Insertion of x into a sequence ordered by the comparator of a column
RECURSIVE InsertSorted(_, _, _, _)
InsertSorted(x, s, column, descendingSort) ==
    IF s = <<>> THEN <<x>>
    ELSE IF SortAlgorithm(column, Head(s), x, descendingSort)
         THEN <<Head(s)>> \o InsertSorted(x, Tail(s), column, descendingSort)
         ELSE <<x>> \o s

\* std::sort with a strict total order: the one ordered permutation
RECURSIVE StdSort(_, _, _)
StdSort(s, column, descendingSort) ==
    IF s = <<>> THEN <<>>
    ELSE InsertSorted(Head(s), StdSort(Tail(s), column, descendingSort),
                      column, descendingSort)

\* ----------------------------------------------------------------- geometry
getItemsTotalHeight(render) == Len(render) * rowHeight

getScrollAreaHeight == height - titleHeight

getTopRenderOffset == 0

getBottomRenderOffset(render) ==
    IF getItemsTotalHeight(render) > height - titleHeight
    THEN getItemsTotalHeight(render) - height + titleHeight
    ELSE 0

\* adjustRenderOffset without its lower bound
adjustRenderOffsetNoFloor(offset, render) ==
    Min(offset, getBottomRenderOffset(render))

adjustRenderOffset(offset, render) ==
    Max(0, Min(offset, getBottomRenderOffset(render)))

getScrollbarHeight(render, ub) ==
    Max(DoubleToInt(getScrollAreaHeight, getItemsTotalHeight(render), height, 0, ub),
        scrollbarMinHeight)

getScrollbarY(render, offset, ub, ubY) ==
    Min(DoubleToInt(offset, getItemsTotalHeight(render), getScrollAreaHeight,
                    titleHeight, ubY),
        height - getScrollbarHeight(render, ub))

isMouseAtScrollArea(x) == x > width - scrollbarDragWidth /\ x < width

isMouseAtTitleArea(y) == y > 0 /\ y < titleHeight

\* A scrollbar mapping scaled by the scrollable range instead of the total
\* height of the items
ScrollbarOffsetOfRange(y, render, ub) ==
    Max(0, Min(getBottomRenderOffset(render),
        DoubleToInt(y - CDiv(getScrollbarHeight(render, ub), 2) - titleHeight,
                    getScrollAreaHeight, getBottomRenderOffset(render), 0, ub)))

\* The offset a pointer at y on the scrollbar maps to (thumb drag and track
\* click): (y - barHeight / 2 - titleHeight) / (scrollAreaHeight * 1.0) *
\* itemsTotalHeight, converted to int and clamped.
ScrollbarOffset(y, render, ub) ==
    adjustRenderOffset(
        DoubleToInt(y - CDiv(getScrollbarHeight(render, ub), 2) - titleHeight,
                    getScrollAreaHeight, getItemsTotalHeight(render), 0, ub),
        render)

\* wheelEvent: renderOffset - (delta / 120.0) * scrollUnit, converted to int
WheelOffset(offset, delta, render) ==
    adjustRenderOffset(
        LET n == offset * WheelNotch - delta * scrollUnit IN CDiv(n, WheelNotch),
        render)

\* QList<bool>::value(i): the default value false outside the list
VisibleValue(i) == IF i >= 0 /\ i < Len(columnVisibles) THEN columnVisibles[i + 1] ELSE FALSE

SumFixedVisible ==
    LET RECURSIVE Sum(_)
        Sum(j) == IF j = 0 THEN 0
                  ELSE Sum(j - 1) + (IF columnWidths[j] # -1 /\ VisibleValue(j - 1)
                                     THEN columnWidths[j] ELSE 0)
    IN Sum(Len(columnWidths))

\* Render widths with the auto width held at 0 from below
getRenderWidthsClamped ==
    IF Len(columnWidths) > 0
    THEN [i \in 1..Len(columnWidths) |->
            IF ~VisibleValue(i - 1) THEN 0
            ELSE IF columnWidths[i] # -1 THEN columnWidths[i]
            ELSE Max(0, width - SumFixedVisible)]
    ELSE <<width>>

getRenderWidths ==
    IF Len(columnWidths) > 0
    THEN [i \in 1..Len(columnWidths) |->
            IF ~VisibleValue(i - 1) THEN 0
            ELSE IF columnWidths[i] # -1 THEN columnWidths[i]
            ELSE width - SumFixedVisible]
    ELSE <<width>>

\* The loop over renderWidths of the mouse handlers: the 0-based column whose
\* span contains x (columnCounter at the break), Len(widths) when the loop
\* runs to its end.
RECURSIVE ColumnScan(_, _, _, _)
ColumnScan(widths, x, columnCounter, columnRenderX) ==
    IF columnCounter >= Len(widths) THEN columnCounter
    ELSE LET w == widths[columnCounter + 1] IN
         IF w > 0 /\ x > columnRenderX /\ x < columnRenderX + w THEN columnCounter
         ELSE ColumnScan(widths, x, columnCounter + 1,
                         IF w > 0 THEN columnRenderX + w ELSE columnRenderX)

ColumnAt(x) == ColumnScan(getRenderWidths, x, 0, 0)

\* ------------------------------------------------------------ search, sort
\* A filter that lets every item through
getSearchItemsUnfiltered(items, content) == items

getSearchItems(items, content) ==
    IF content = "" \/ ~searchAlgorithm THEN items
    ELSE SelectSeq(items, LAMBDA item : Matches(item, content))

\* The guard of sortItemsByColumn and of the header click
SortingEnabled(algorithms, orderes) ==
    /\ algorithms # 0
    /\ algorithms = Len(columnWidths)
    /\ Len(orderes) = Len(columnWidths)

\* sortItemsByColumn reads (*sortingAlgorithms)[column] when the comparator
\* is called, that is when there are at least two items to order
SortIndexesOutOfRange(render, column, algorithms, orderes) ==
    /\ SortingEnabled(algorithms, orderes)
    /\ Len(render) >= 2
    /\ ~(column >= 0 /\ column < algorithms)

sortItemsByColumn(render, column, descendingSort, algorithms, orderes) ==
    IF SortingEnabled(algorithms, orderes) /\ column >= 0 /\ column < algorithms
    THEN StdSort(render, column, descendingSort)
    ELSE render


\* ------------------------------------------------------------------- Init
\* DPageIndicatorPrivate::DPageIndicatorPrivate: three pages, the second
\* one current
DPageIndicatorPrivate ==
    /\ pageCount = 3
    /\ currentPage = 1

\* The state after construction and set-up (setRowHeight,
\* setColumnTitleInfo, setColumnHideFlags, setSingleSelect,
\* keepSelectWhenClickBlank, setSearchAlgorithm).
InitWith(singles, configs) ==
    /\ rowHeight \in RowHeights
    /\ scrollUnit = (IF rowHeight = DefaultRowHeight THEN 0 ELSE rowHeight)
    /\ height \in Heights
    /\ width \in Widths
    /\ \E c \in configs :
          /\ titleHeight = c.titleHeight
          /\ columnWidths = c.columnWidths
          /\ columnVisibles = c.columnVisibles
    /\ isSingleSelect \in singles
    /\ isKeepSelectWhenClickBlank \in KeepFlags
    /\ searchAlgorithm \in SearchAlgorithms
    /\ listItems = <<>>
    /\ renderItems = <<>>
    /\ selectionItems = <<>>
    /\ lastSelectItem = NULL
    /\ lastHoverItem = NULL
    /\ lastHoverColumnIndex = -1
    /\ searchContent = ""
    /\ sortingAlgorithms = 0
    /\ sortingOrderes = <<>>
    /\ defaultSortingColumn = 0
    /\ defaultSortingOrder = FALSE
    /\ renderOffset = 0
    /\ oldRenderOffset = 0
    /\ mouseAtScrollArea = FALSE
    /\ mouseDragScrollbar = FALSE
    /\ hideScrollbarTimer = "NULL"
    /\ outOfRange = FALSE
    /\ lastOp = "init"
    /\ DPageIndicatorPrivate

Init == InitWith({FALSE}, ColumnConfigs)

\* ------------------------------------------------------------------ paint
\* startScrollbarHideTimer: the previous timer is stopped, a new one runs
startScrollbarHideTimer(timer) == "active"

\* A paint that never starts the hide timer
PaintTimerNever(atScrollArea, oldOffset, offset, timer) == timer

\* The state effect of paintEvent, which repaint() runs synchronously: the
\* scrollbar is drawn and the hide timer started when the offset moved while
\* the pointer is off the scrollbar strip.
PaintTimer(atScrollArea, oldOffset, offset, timer) ==
    IF ~atScrollArea /\ oldOffset # offset
    THEN startScrollbarHideTimer(timer)
    ELSE timer

Repaint ==
    hideScrollbarTimer' =
        PaintTimer(mouseAtScrollArea', oldRenderOffset', renderOffset', hideScrollbarTimer)

\* The rows on which paintEvent calls drawBackground and drawForeground:
\* the loop over renderItems from row renderOffset / rowHeight, which adds
\* rowHeight to renderHeight per row and breaks once it exceeds the height.
RECURSIVE PaintLoop(_, _, _, _)
PaintLoop(render, offset, rowCounter, renderHeight) ==
    IF rowCounter >= Len(render) THEN {}
    ELSE IF rowCounter >= CDiv(offset, rowHeight)
         THEN {rowCounter} \cup
              (IF renderHeight + rowHeight > height THEN {}
               ELSE PaintLoop(render, offset, rowCounter + 1, renderHeight + rowHeight))
         ELSE PaintLoop(render, offset, rowCounter + 1, renderHeight)

PaintedRows(render, offset) ==
    PaintLoop(render, offset, 0, IF titleHeight > 0 THEN titleHeight ELSE 0)


\* ------------------------------------------------------ selection helpers
\* addSelections(items, recordLastSelection): the new lastSelectItem
addSelectionsLast(selection, last, recordLastSelection) ==
    IF recordLastSelection /\ Len(selection) > 0 THEN selection[Len(selection)] ELSE last

\* clearSelections(clearLastSelection): the new lastSelectItem
clearSelectionsLast(last, clearLastSelection) ==
    IF clearLastSelection THEN NULL ELSE last

\* A range that leaves out its upper bound
shiftSelectItemsExclusive(render, selectionStartIndex, selectionEndIndex) ==
    SubSeq(render, selectionStartIndex + 1, selectionEndIndex)

\* The items of renderItems at the indices start..end, as collected by
\* shiftSelectItemsWithBound
shiftSelectItemsWithBound(render, selectionStartIndex, selectionEndIndex) ==
    LET Keep == {i \in 1..Len(render) :
                    (i - 1) >= selectionStartIndex /\ (i - 1) <= selectionEndIndex}
        RECURSIVE Collect(_)
        Collect(i) == IF i > Len(render) THEN <<>>
                      ELSE (IF i \in Keep THEN <<render[i]>> ELSE <<>>) \o Collect(i + 1)
    IN Collect(1)

\* The loops over selectionItems of the *WithOffset functions
MaxSelectionIndex(selection, render) ==
    LET idx == {IndexOf(render, selection[k]) : k \in 1..Len(selection)} \cup {0}
    IN CHOOSE m \in idx : \A n \in idx : n <= m

MinSelectionIndex(selection, render) ==
    LET idx == {IndexOf(render, selection[k]) : k \in 1..Len(selection)} \cup {Len(render)}
    IN CHOOSE m \in idx : \A n \in idx : m <= n

\* ---------------------------------------------------------- list contents
NewItemLists(present) ==
    LET free == Items \ present IN
    {<<a>> : a \in free} \cup
    {<<a, b>> : <<a, b>> \in {t \in free \X free : t[1] # t[2]}}

addItems(items) ==
    /\ lastOp' = "addItems"
    /\ listItems' = listItems \o items
    /\ LET appended == renderItems \o getSearchItems(items, searchContent) IN
       /\ renderItems' =
             (IF defaultSortingColumn # -1
              THEN sortItemsByColumn(appended, defaultSortingColumn, defaultSortingOrder,
                                     sortingAlgorithms, sortingOrderes)
              ELSE appended)
       /\ outOfRange' = (defaultSortingColumn # -1 /\
                         SortIndexesOutOfRange(appended, defaultSortingColumn,
                                               sortingAlgorithms, sortingOrderes))
    /\ UNCHANGED <<cfgVars, selVars, hoverVars, searchContent, sortVars, offVars, mouseVars>>
    /\ Repaint

\* removeItem leaves selectionItems and lastSelectItem as they are
removeItemOffset(offset, render) ==
    IF offset >= getItemsTotalHeight(render) - height
    THEN adjustRenderOffset(offset - rowHeight, render)
    ELSE offset

\* A removeItem that takes the item out of listItems only
removeItemFromListOnly(item) ==
    /\ item # NULL
    /\ lastOp' = "removeItem"
    /\ listItems' = RemoveOne(listItems, item)
    /\ renderItems' = renderItems
    /\ renderOffset' = removeItemOffset(renderOffset, renderItems')
    /\ UNCHANGED <<cfgVars, selVars, hoverVars, searchContent, sortVars, oldRenderOffset,
                   mouseVars, outOfRange>>
    /\ Repaint

removeItem(item) ==
    /\ item # NULL
    /\ lastOp' = "removeItem"
    /\ listItems' = RemoveOne(listItems, item)
    /\ renderItems' = RemoveOne(renderItems, item)
    /\ renderOffset' = removeItemOffset(renderOffset, renderItems')
    /\ UNCHANGED <<cfgVars, selVars, hoverVars, searchContent, sortVars, oldRenderOffset,
                   mouseVars, outOfRange>>
    /\ Repaint

\* A QPointer reads as null once its item has been deleted
QPointerAfterDelete(pointer, deleted) == IF pointer \in deleted THEN NULL ELSE pointer

\* clearItems deletes the items; selectionItems keeps its (raw) pointers and
\* renderOffset is not touched; there is no repaint
clearItems ==
    /\ lastOp' = "clearItems"
    /\ listItems' = <<>>
    /\ renderItems' = <<>>
    /\ lastSelectItem' = QPointerAfterDelete(lastSelectItem, Range(listItems))
    /\ lastHoverItem' = QPointerAfterDelete(lastHoverItem, Range(listItems))
    /\ UNCHANGED <<cfgVars, selectionItems, lastHoverColumnIndex, searchContent, sortVars,
                   offVars, mouseVars, hideScrollbarTimer, outOfRange>>

\* refreshItems: the items of the new list that are sameAs a selected item
refreshSelection(items, selection) ==
    SelectSeq(items, LAMBDA item : \E k \in 1..Len(selection) : SameAs(item, selection[k]))

\* An anchor that is carried over as it is
refreshPointerKept(items, pointer) == pointer

\* refreshItems: the first new item that is sameAs the old anchor
refreshPointer(items, pointer) ==
    IF pointer # NULL /\ \E k \in 1..Len(items) : SameAs(items[k], pointer)
    THEN items[CHOOSE k \in 1..Len(items) :
                  SameAs(items[k], pointer) /\ \A j \in 1..(k - 1) : ~SameAs(items[j], pointer)]
    ELSE NULL

refreshItems(items) ==
    /\ lastOp' = "refreshItems"
    /\ listItems' = items
    /\ LET appended == getSearchItems(items, searchContent) IN
       /\ renderItems' =
             (IF defaultSortingColumn # -1
              THEN sortItemsByColumn(appended, defaultSortingColumn, defaultSortingOrder,
                                     sortingAlgorithms, sortingOrderes)
              ELSE appended)
       /\ outOfRange' = (defaultSortingColumn # -1 /\
                         SortIndexesOutOfRange(appended, defaultSortingColumn,
                                               sortingAlgorithms, sortingOrderes))
    /\ selectionItems' = refreshSelection(items, selectionItems)
    /\ lastSelectItem' = refreshPointer(items, lastSelectItem)
    /\ lastHoverItem' = refreshPointer(items, lastHoverItem)
    /\ renderOffset' = adjustRenderOffset(renderOffset, renderItems')
    /\ UNCHANGED <<cfgVars, lastHoverColumnIndex, searchContent, sortVars, oldRenderOffset,
                   mouseVars>>
    /\ Repaint

\* A search whose reset branch sorts by the active column again
searchRenderResorted(content, previous, items) ==
    IF content = "" /\ previous # content
    THEN sortItemsByColumn(items, defaultSortingColumn, defaultSortingOrder,
                           sortingAlgorithms, sortingOrderes)
    ELSE getSearchItems(items, content)

\* search: the new renderItems; both branches leave renderOffset alone
searchRender(content, previous, items) ==
    IF content = "" /\ previous # content THEN items
    ELSE getSearchItems(items, content)

\* A search that filters the rows shown instead of listItems
searchWithinRender(content) ==
    /\ lastOp' = (IF content = "" /\ searchContent # content THEN "searchReset" ELSE "search")
    /\ searchContent' = content
    /\ renderItems' = searchRender(content, searchContent, renderItems)
    /\ UNCHANGED <<cfgVars, listItems, selVars, hoverVars, sortVars, offVars, mouseVars,
                   outOfRange>>
    /\ Repaint

\* lastOp tells the reset branch (an empty content after a non-empty one)
search(content) ==
    /\ lastOp' = (IF content = "" /\ searchContent # content THEN "searchReset" ELSE "search")
    /\ searchContent' = content
    /\ renderItems' = searchRender(content, searchContent, listItems)
    /\ UNCHANGED <<cfgVars, listItems, selVars, hoverVars, sortVars, offVars, mouseVars,
                   outOfRange>>
    /\ Repaint

setColumnSortingAlgorithms(algorithms, sortColumn, descendingSort) ==
    /\ Len(sortingOrderes) + algorithms <= MaxSortingOrderes
    /\ lastOp' = "setColumnSortingAlgorithms"
    /\ sortingAlgorithms' = algorithms
    /\ sortingOrderes' = sortingOrderes \o [i \in 1..algorithms |-> FALSE]
    /\ defaultSortingColumn' = sortColumn
    /\ defaultSortingOrder' = descendingSort
    /\ UNCHANGED <<cfgVars, itemVars, selVars, hoverVars, searchContent, offVars, mouseVars,
                   hideScrollbarTimer, outOfRange>>

\* setColumnHideFlags: one flag per column title (asserted); no repaint
setColumnHideFlags(toggleHideFlags) ==
    /\ Len(toggleHideFlags) = Len(columnWidths)
    /\ lastOp' = "setColumnHideFlags"
    /\ columnVisibles' = toggleHideFlags
    /\ UNCHANGED <<rowHeight, scrollUnit, titleHeight, height, width, columnWidths,
                   isSingleSelect, isKeepSelectWhenClickBlank, searchAlgorithm,
                   itemVars, selVars, hoverVars, searchContent, sortVars, offVars,
                   mouseVars, hideScrollbarTimer, outOfRange>>

\* ------------------------------------------------------------- scrolling
wheelEvent(delta) ==
    /\ delta # 0
    /\ lastOp' = "wheelEvent"
    /\ oldRenderOffset' = renderOffset
    /\ renderOffset' = WheelOffset(renderOffset, delta, renderItems)
    /\ UNCHANGED <<cfgVars, itemVars, selVars, hoverVars, searchContent, sortVars, mouseVars,
                   outOfRange>>
    /\ Repaint

\* The four Ctrl scroll functions: only renderOffset moves
ScrollTo(name, offset) ==
    /\ lastOp' = name
    /\ renderOffset' = offset
    /\ UNCHANGED <<cfgVars, itemVars, selVars, hoverVars, searchContent, sortVars,
                   oldRenderOffset, mouseVars, outOfRange>>
    /\ Repaint

ctrlScrollPageUp ==
    ScrollTo("ctrlScrollPageUp",
             adjustRenderOffset(renderOffset - getScrollAreaHeight, renderItems))

ctrlScrollPageDown ==
    ScrollTo("ctrlScrollPageDown",
             adjustRenderOffset(renderOffset + getScrollAreaHeight, renderItems))

ctrlScrollToHome == ScrollTo("ctrlScrollToHome", getTopRenderOffset)

ctrlScrollToEnd == ScrollTo("ctrlScrollToEnd", getBottomRenderOffset(renderItems))

\* hideScrollbar: the slot of the hide timer, also called by leaveEvent
hideScrollbarEffect ==
    /\ mouseAtScrollArea' = FALSE
    /\ oldRenderOffset' = renderOffset
    /\ UNCHANGED <<cfgVars, itemVars, selVars, searchContent, sortVars, renderOffset,
                   mouseDragScrollbar, outOfRange>>
    /\ Repaint

hideScrollbar ==
    /\ hideScrollbarTimer = "active"
    /\ lastOp' = "hideScrollbar"
    /\ UNCHANGED hoverVars
    /\ hideScrollbarEffect

leaveEvent ==
    /\ lastOp' = "leaveEvent"
    /\ lastHoverItem' = NULL
    /\ UNCHANGED lastHoverColumnIndex
    /\ hideScrollbarEffect


\* ------------------------------------------------------------- selection
\* What the selection functions leave alone
SelectionFrame ==
    UNCHANGED <<cfgVars, itemVars, hoverVars, searchContent, sortVars, mouseVars>>

\* A function that returns before touching anything
NoEffect ==
    UNCHANGED <<selVars, offVars, hideScrollbarTimer, outOfRange>>

\* renderItems was indexed out of range: the handler does not complete
IndexedOutOfRange ==
    /\ outOfRange' = TRUE
    /\ UNCHANGED <<selVars, renderOffset, hideScrollbarTimer>>

selectAllItems ==
    /\ lastOp' = "selectAllItems"
    /\ SelectionFrame
    /\ IF ~isSingleSelect
       THEN /\ oldRenderOffset' = renderOffset
            /\ selectionItems' = renderItems
            /\ lastSelectItem' = addSelectionsLast(renderItems, clearSelectionsLast(lastSelectItem, TRUE), TRUE)
            /\ renderOffset' = getTopRenderOffset
            /\ UNCHANGED outOfRange
            /\ Repaint
       ELSE NoEffect

\* A selectFirstItem that leaves the view where it is
selectFirstItemNoScroll ==
    /\ oldRenderOffset' = renderOffset
    /\ selectionItems' = <<At(renderItems, 0)>>
    /\ lastSelectItem' = addSelectionsLast(selectionItems', clearSelectionsLast(lastSelectItem, TRUE), TRUE)
    /\ UNCHANGED <<renderOffset, outOfRange>>
    /\ Repaint

\* selectFirstItem past its isEmpty() return
selectFirstItemBody ==
    /\ oldRenderOffset' = renderOffset
    /\ selectionItems' = <<At(renderItems, 0)>>
    /\ lastSelectItem' = addSelectionsLast(selectionItems', clearSelectionsLast(lastSelectItem, TRUE), TRUE)
    /\ renderOffset' = getTopRenderOffset
    /\ UNCHANGED outOfRange
    /\ Repaint

selectFirstItem ==
    /\ lastOp' = "selectFirstItem"
    /\ SelectionFrame
    /\ IF renderItems = <<>> THEN NoEffect ELSE selectFirstItemBody

selectLastItemBody ==
    /\ oldRenderOffset' = renderOffset
    /\ selectionItems' = <<At(renderItems, Len(renderItems) - 1)>>
    /\ lastSelectItem' = addSelectionsLast(selectionItems', clearSelectionsLast(lastSelectItem, TRUE), TRUE)
    /\ renderOffset' = getBottomRenderOffset(renderItems)
    /\ UNCHANGED outOfRange
    /\ Repaint

selectLastItem ==
    /\ lastOp' = "selectLastItem"
    /\ SelectionFrame
    /\ IF renderItems = <<>> THEN NoEffect ELSE selectLastItemBody

\* The empty-selection branch without the isEmpty() return of selectFirstItem
selectFirstItemUnchecked ==
    IF renderItems = <<>>
    THEN /\ oldRenderOffset' = renderOffset
         /\ IndexedOutOfRange
    ELSE selectFirstItemBody

\* The branch of the *WithOffset functions for an empty selection: the
\* caller has recorded oldRenderOffset, then selectFirstItem runs
selectFirstItemAfterRecord ==
    IF renderItems = <<>>
    THEN /\ oldRenderOffset' = renderOffset
         /\ UNCHANGED <<selVars, renderOffset, hideScrollbarTimer, outOfRange>>
    ELSE selectFirstItemBody

\* selectNextItemWithOffset: the index selected, and the new offset
selectNextIndex(selection, render, scrollOffset) ==
    Min(Len(render) - 1, MaxSelectionIndex(selection, render) + scrollOffset)

selectNextOffset(offset, render, lastIndex) ==
    LET itemIndex == lastIndex + 1
        itemOffset == adjustRenderOffset(itemIndex * rowHeight - height + titleHeight, render)
    IN IF CDiv(offset + getScrollAreaHeight, rowHeight) < itemIndex THEN itemOffset ELSE offset

selectNextItemWithOffset(name, scrollOffset) ==
    /\ lastOp' = name
    /\ SelectionFrame
    /\ IF selectionItems = <<>> THEN selectFirstItemAfterRecord
       ELSE LET lastIndex == selectNextIndex(selectionItems, renderItems, scrollOffset) IN
            /\ oldRenderOffset' = renderOffset
            /\ IF ~InRange(renderItems, lastIndex) THEN IndexedOutOfRange
               ELSE /\ selectionItems' = <<At(renderItems, lastIndex)>>
                    /\ lastSelectItem' = addSelectionsLast(selectionItems', clearSelectionsLast(lastSelectItem, FALSE), TRUE)
                    /\ renderOffset' = selectNextOffset(renderOffset, renderItems, lastIndex)
                    /\ UNCHANGED outOfRange
                    /\ Repaint

selectPrevIndex(firstIndex, scrollOffset) == Max(0, firstIndex - scrollOffset)

selectPrevOffset(offset, render, firstIndex) ==
    LET itemIndex == firstIndex - 1
        itemOffset == adjustRenderOffset(itemIndex * rowHeight + titleHeight, render)
    IN IF CDiv(offset, rowHeight) > itemIndex THEN itemOffset ELSE offset

selectPrevItemWithOffset(name, scrollOffset) ==
    /\ lastOp' = name
    /\ SelectionFrame
    /\ IF selectionItems = <<>> THEN selectFirstItemAfterRecord
       ELSE LET first == MinSelectionIndex(selectionItems, renderItems)
                firstIndex == selectPrevIndex(first, scrollOffset) IN
            /\ oldRenderOffset' = renderOffset
            /\ IF first = -1
               THEN UNCHANGED <<selVars, renderOffset, hideScrollbarTimer, outOfRange>>
               ELSE IF ~InRange(renderItems, firstIndex) THEN IndexedOutOfRange
               ELSE /\ selectionItems' = <<At(renderItems, firstIndex)>>
                    /\ lastSelectItem' = addSelectionsLast(selectionItems', clearSelectionsLast(lastSelectItem, TRUE), TRUE)
                    /\ renderOffset' = selectPrevOffset(renderOffset, renderItems, firstIndex)
                    /\ UNCHANGED outOfRange
                    /\ Repaint

\* shiftSelectPrevItemWithOffset: the bounds <<start, end>> of the new range
shiftPrevBounds(selection, render, last, scrollOffset) ==
    LET firstIndex == MinSelectionIndex(selection, render)
        lastIndex == MaxSelectionIndex(selection, render)
        lastSelectionIndex == IndexOf(render, last)
    IN IF lastIndex = lastSelectionIndex
       THEN <<Max(0, firstIndex - scrollOffset), lastSelectionIndex>>
       ELSE <<firstIndex, Max(0, lastIndex - scrollOffset)>>

shiftPrevOffset(offset, render, selectionStartIndex) ==
    IF CDiv(offset, rowHeight) >= selectionStartIndex
    THEN adjustRenderOffset((selectionStartIndex - 1) * rowHeight + titleHeight, render)
    ELSE offset

shiftSelectPrevItemWithOffset(scrollOffset) ==
    IF selectionItems = <<>> THEN selectFirstItemAfterRecord
    ELSE /\ oldRenderOffset' = renderOffset
         /\ IF MinSelectionIndex(selectionItems, renderItems) = -1
            THEN UNCHANGED <<selVars, renderOffset, hideScrollbarTimer, outOfRange>>
            ELSE LET b == shiftPrevBounds(selectionItems, renderItems, lastSelectItem, scrollOffset) IN
                 /\ selectionItems' = shiftSelectItemsWithBound(renderItems, b[1], b[2])
                 /\ lastSelectItem' = addSelectionsLast(selectionItems', clearSelectionsLast(lastSelectItem, FALSE), FALSE)
                 /\ renderOffset' = shiftPrevOffset(renderOffset, renderItems, b[1])
                 /\ UNCHANGED outOfRange
                 /\ Repaint

shiftNextBounds(selection, render, last, scrollOffset) ==
    LET firstIndex == MinSelectionIndex(selection, render)
        lastIndex == MaxSelectionIndex(selection, render)
        lastSelectionIndex == IndexOf(render, last)
    IN IF firstIndex = lastSelectionIndex
       THEN <<firstIndex, Min(Len(render) - 1, lastIndex + scrollOffset)>>
       ELSE <<Min(Len(render) - 1, firstIndex + scrollOffset), lastIndex>>

shiftNextOffset(offset, render, selectionEndIndex) ==
    IF CDiv(offset + height, rowHeight) <= selectionEndIndex + 1
    THEN adjustRenderOffset((selectionEndIndex + 1) * rowHeight + titleHeight - height, render)
    ELSE offset

shiftSelectNextItemWithOffset(scrollOffset) ==
    IF selectionItems = <<>> THEN selectFirstItemAfterRecord
    ELSE /\ oldRenderOffset' = renderOffset
         /\ IF MinSelectionIndex(selectionItems, renderItems) = -1
            THEN UNCHANGED <<selVars, renderOffset, hideScrollbarTimer, outOfRange>>
            ELSE LET b == shiftNextBounds(selectionItems, renderItems, lastSelectItem, scrollOffset) IN
                 /\ selectionItems' = shiftSelectItemsWithBound(renderItems, b[1], b[2])
                 /\ lastSelectItem' = addSelectionsLast(selectionItems', clearSelectionsLast(lastSelectItem, FALSE), FALSE)
                 /\ renderOffset' = shiftNextOffset(renderOffset, renderItems, b[2])
                 /\ UNCHANGED outOfRange
                 /\ Repaint

\* Shift functions that do not test isSingleSelect
ShiftSelectAlways(name, Body) ==
    /\ lastOp' = name
    /\ SelectionFrame
    /\ Body

\* The six shift functions: nothing happens in single-select mode
ShiftSelect(name, Body) ==
    /\ lastOp' = name
    /\ SelectionFrame
    /\ IF ~isSingleSelect THEN Body ELSE NoEffect

PageRows == CDiv(getScrollAreaHeight, rowHeight)

shiftSelectPageDown == ShiftSelect("shiftSelectPageDown", shiftSelectNextItemWithOffset(PageRows))

shiftSelectPageUp == ShiftSelect("shiftSelectPageUp", shiftSelectPrevItemWithOffset(PageRows))

shiftSelectToNext == ShiftSelect("shiftSelectToNext", shiftSelectNextItemWithOffset(1))

shiftSelectToPrev == ShiftSelect("shiftSelectToPrev", shiftSelectPrevItemWithOffset(1))

shiftSelectToEndBody ==
    IF selectionItems = <<>>
    THEN (IF renderItems = <<>> THEN NoEffect ELSE selectLastItemBody)
    ELSE /\ selectionItems' = shiftSelectItemsWithBound(renderItems,
                                  IndexOf(renderItems, lastSelectItem), Len(renderItems) - 1)
         /\ lastSelectItem' = addSelectionsLast(selectionItems', clearSelectionsLast(lastSelectItem, FALSE), FALSE)
         /\ renderOffset' = getBottomRenderOffset(renderItems)
         /\ UNCHANGED <<oldRenderOffset, outOfRange>>
         /\ Repaint

shiftSelectToEnd == ShiftSelect("shiftSelectToEnd", shiftSelectToEndBody)

shiftSelectToHomeBody ==
    IF selectionItems = <<>>
    THEN (IF renderItems = <<>> THEN NoEffect ELSE selectFirstItemBody)
    ELSE /\ selectionItems' = shiftSelectItemsWithBound(renderItems,
                                  0, IndexOf(renderItems, lastSelectItem))
         /\ lastSelectItem' = addSelectionsLast(selectionItems', clearSelectionsLast(lastSelectItem, FALSE), FALSE)
         /\ renderOffset' = getTopRenderOffset
         /\ UNCHANGED <<oldRenderOffset, outOfRange>>
         /\ Repaint

shiftSelectToHome == ShiftSelect("shiftSelectToHome", shiftSelectToHomeBody)

selectNextItem == selectNextItemWithOffset("selectNextItem", 1)

selectPrevItem == selectPrevItemWithOffset("selectPrevItem", 1)

scrollPageDown == selectNextItemWithOffset("scrollPageDown", PageRows)

scrollPageUp == selectPrevItemWithOffset("scrollPageUp", PageRows)

\* keyPressEvent: the modifier tests are equalities, so Ctrl and Shift
\* exclude each other and any other key does nothing
keyPressEvent(key, modifiers) ==
    CASE key = "Home" /\ modifiers = "Ctrl" -> ctrlScrollToHome
      [] key = "Home" /\ modifiers = "Shift" -> shiftSelectToHome
      [] key = "Home" /\ modifiers = "None" -> selectFirstItem
      [] key = "End" /\ modifiers = "Ctrl" -> ctrlScrollToEnd
      [] key = "End" /\ modifiers = "Shift" -> shiftSelectToEnd
      [] key = "End" /\ modifiers = "None" -> selectLastItem
      [] key = "Up" /\ modifiers = "Shift" -> shiftSelectToPrev
      [] key = "Up" /\ modifiers # "Shift" -> selectPrevItem
      [] key = "Down" /\ modifiers = "Shift" -> shiftSelectToNext
      [] key = "Down" /\ modifiers # "Shift" -> selectNextItem
      [] key = "PageUp" /\ modifiers = "Ctrl" -> ctrlScrollPageUp
      [] key = "PageUp" /\ modifiers = "Shift" -> shiftSelectPageUp
      [] key = "PageUp" /\ modifiers = "None" -> scrollPageUp
      [] key = "PageDown" /\ modifiers = "Ctrl" -> ctrlScrollPageDown
      [] key = "PageDown" /\ modifiers = "Shift" -> shiftSelectPageDown
      [] key = "PageDown" /\ modifiers = "None" -> scrollPageDown
      [] key = "A" /\ modifiers = "Ctrl" -> selectAllItems
      [] OTHER -> FALSE


\* ----------------------------------------------------------------- mouse
\* The outcomes of converting a non-finite double to int: only drawn when
\* renderItems is empty (total height 0)
UBChoices(render) == IF Len(render) = 0 THEN UBInts ELSE {0}

\* A header click that always sets the flag of the column
HeaderClickNoToggle(st, c) ==
    LET orderes == [st.sortingOrderes EXCEPT ![c + 1] = TRUE]
    IN [sortingOrderes |-> orderes,
        defaultSortingColumn |-> c,
        defaultSortingOrder |-> TRUE,
        renderItems |-> sortItemsByColumn(st.renderItems, c, TRUE, sortingAlgorithms, orderes)]

\* The sort state after a left click on the header of column c
HeaderClick(st, c) ==
    LET flag == IF c # st.defaultSortingColumn THEN TRUE ELSE ~st.sortingOrderes[c + 1]
        orderes == [st.sortingOrderes EXCEPT ![c + 1] = flag]
    IN [sortingOrderes |-> orderes,
        defaultSortingColumn |-> c,
        defaultSortingOrder |-> flag,
        renderItems |-> sortItemsByColumn(st.renderItems, c, flag, sortingAlgorithms, orderes)]

SortState ==
    [sortingOrderes |-> sortingOrderes,
     defaultSortingColumn |-> defaultSortingColumn,
     defaultSortingOrder |-> defaultSortingOrder,
     renderItems |-> renderItems]

\* The columns whose header can be clicked at some x
HeaderColumn(x) ==
    IF SortingEnabled(sortingAlgorithms, sortingOrderes) /\ ColumnAt(x) < Len(getRenderWidths)
    THEN ColumnAt(x) ELSE -1

pressTitle(x, button) ==
    IF button = "Left" /\ HeaderColumn(x) # -1
    THEN LET st == HeaderClick(SortState, HeaderColumn(x)) IN
         /\ lastOp' = (IF isMouseAtScrollArea(x) THEN "pressTitleAtStrip" ELSE "pressTitle")
         /\ sortingOrderes' = st.sortingOrderes
         /\ defaultSortingColumn' = st.defaultSortingColumn
         /\ defaultSortingOrder' = st.defaultSortingOrder
         /\ renderItems' = st.renderItems
         /\ UNCHANGED <<cfgVars, listItems, selVars, hoverVars, searchContent,
                        sortingAlgorithms, offVars, mouseVars, outOfRange>>
         /\ Repaint
    ELSE FALSE

pressScrollbar(y, ub, ubY) ==
    LET barHeight == getScrollbarHeight(renderItems, ub)
        barY == getScrollbarY(renderItems, renderOffset, ub, ubY)
    IN IF y > barY /\ y < barY + barHeight
       THEN /\ lastOp' = "pressThumb"
            /\ mouseDragScrollbar' = TRUE
            /\ UNCHANGED <<cfgVars, itemVars, selVars, hoverVars, searchContent, sortVars,
                           offVars, mouseAtScrollArea, hideScrollbarTimer, outOfRange>>
       ELSE /\ lastOp' = "pressTrack"
            /\ renderOffset' = ScrollbarOffset(y, renderItems, ub)
            /\ UNCHANGED <<cfgVars, itemVars, selVars, hoverVars, searchContent, sortVars,
                           oldRenderOffset, mouseVars, outOfRange>>
            /\ Repaint

\* The row under a pointer at y: (renderOffset + y - titleHeight) / rowHeight
RowAt(y, offset) == CDiv(offset + y - titleHeight, rowHeight)

pressRows(y, button, modifiers) ==
    LET pressItemIndex == RowAt(y, renderOffset) IN
    /\ UNCHANGED <<cfgVars, itemVars, hoverVars, searchContent, sortVars, offVars, mouseVars>>
    /\ IF pressItemIndex >= Len(renderItems)
       THEN /\ lastOp' = "pressBlank"
            /\ IF ~isKeepSelectWhenClickBlank
               THEN /\ selectionItems' = <<>>
                    /\ lastSelectItem' = clearSelectionsLast(lastSelectItem, TRUE)
               ELSE UNCHANGED selVars
            /\ UNCHANGED outOfRange
            /\ Repaint
       ELSE IF pressItemIndex < 0
       THEN /\ lastOp' = "pressRow"
            /\ outOfRange' = TRUE
            /\ UNCHANGED <<selVars, hideScrollbarTimer>>
       ELSE LET item == At(renderItems, pressItemIndex) IN
            /\ UNCHANGED outOfRange
            /\ Repaint
            /\ IF button = "Left"
               THEN IF ~isSingleSelect /\ modifiers = "Ctrl"
                    THEN /\ lastOp' = "pressRowCtrl"
                         /\ IF item \in Range(selectionItems)
                            THEN /\ selectionItems' = RemoveOne(selectionItems, item)
                                 /\ UNCHANGED lastSelectItem
                            ELSE /\ selectionItems' = Append(selectionItems, item)
                                 /\ lastSelectItem' = addSelectionsLast(selectionItems', lastSelectItem, TRUE)
                    ELSE IF ~isSingleSelect /\ modifiers = "Shift" /\ selectionItems # <<>>
                    THEN LET lastSelectionIndex == IndexOf(renderItems, lastSelectItem) IN
                         /\ lastOp' = "pressRowShift"
                         /\ selectionItems' = shiftSelectItemsWithBound(renderItems,
                                                  Min(pressItemIndex, lastSelectionIndex),
                                                  Max(pressItemIndex, lastSelectionIndex))
                         /\ lastSelectItem' = addSelectionsLast(selectionItems', clearSelectionsLast(lastSelectItem, FALSE), FALSE)
                    ELSE /\ lastOp' = "pressRow"
                         /\ selectionItems' = <<item>>
                         /\ lastSelectItem' = addSelectionsLast(selectionItems', clearSelectionsLast(lastSelectItem, TRUE), TRUE)
               ELSE /\ lastOp' = "pressRowRight"
                    /\ IF item \notin Range(selectionItems)
                       THEN /\ selectionItems' = <<item>>
                            /\ lastSelectItem' = addSelectionsLast(selectionItems', clearSelectionsLast(lastSelectItem, TRUE), TRUE)
                       ELSE UNCHANGED selVars

\* A press handler that tests the scrollbar strip before the title band
mousePressEventStripFirst(x, y, button, modifiers, ub, ubY) ==
    IF isMouseAtScrollArea(x) THEN pressScrollbar(y, ub, ubY)
    ELSE IF isMouseAtTitleArea(y) THEN pressTitle(x, button)
    ELSE pressRows(y, button, modifiers)

\* mousePressEvent: the title band is tested first, then the scrollbar
\* strip, then the rows
mousePressEvent(x, y, button, modifiers, ub, ubY) ==
    IF isMouseAtTitleArea(y) THEN pressTitle(x, button)
    ELSE IF isMouseAtScrollArea(x) THEN pressScrollbar(y, ub, ubY)
    ELSE pressRows(y, button, modifiers)

\* mouseMoveEvent while the thumb is held
mouseMoveDrag(y, ub) ==
    /\ mouseDragScrollbar
    /\ lastOp' = "mouseMoveDrag"
    /\ renderOffset' = ScrollbarOffset(y, renderItems, ub)
    /\ UNCHANGED <<cfgVars, itemVars, selVars, hoverVars, searchContent, sortVars,
                   oldRenderOffset, mouseVars, outOfRange>>
    /\ Repaint

\* mouseMoveEvent entering or leaving the scrollbar strip
mouseMoveScrollArea(x) ==
    /\ ~mouseDragScrollbar
    /\ isMouseAtScrollArea(x) # mouseAtScrollArea
    /\ lastOp' = "mouseMoveScrollArea"
    /\ mouseAtScrollArea' = isMouseAtScrollArea(x)
    /\ UNCHANGED <<cfgVars, itemVars, selVars, hoverVars, searchContent, sortVars, offVars,
                   mouseDragScrollbar, outOfRange>>
    /\ Repaint

\* mouseMoveEvent over a row: the hover anchor follows the pointer
mouseMoveHover(x, y) ==
    LET hoverItemIndex == RowAt(y, renderOffset)
        columnCounter == ColumnAt(x)
    IN
    /\ ~mouseDragScrollbar
    /\ isMouseAtScrollArea(x) = mouseAtScrollArea
    /\ ~isMouseAtTitleArea(y)
    /\ InRange(renderItems, hoverItemIndex)
    /\ LET item == At(renderItems, hoverItemIndex) IN
       /\ lastHoverItem = NULL \/ ~SameAs(item, lastHoverItem)
            \/ columnCounter # lastHoverColumnIndex
       /\ lastHoverItem' = item
       /\ lastHoverColumnIndex' = columnCounter
    /\ lastOp' = "mouseMoveHover"
    /\ UNCHANGED <<cfgVars, itemVars, selVars, searchContent, sortVars, offVars, mouseVars,
                   outOfRange>>
    /\ Repaint

mouseReleaseEvent ==
    /\ mouseDragScrollbar
    /\ lastOp' = "mouseReleaseEvent"
    /\ mouseDragScrollbar' = FALSE
    /\ UNCHANGED <<cfgVars, itemVars, selVars, hoverVars, searchContent, sortVars, offVars,
                   mouseAtScrollArea, outOfRange>>
    /\ Repaint

\* ------------------------------------------------------------------- Next
\* Button and modifier of the presses that differ in effect
PressKinds == {<<"Left", "None">>, <<"Left", "Ctrl">>, <<"Left", "Shift">>, <<"Right", "None">>}

\* The list operations, with a press on a row, the Down key and Ctrl+End
Next ==
    /\ ~outOfRange
    /\ UNCHANGED pageVars
    /\ \/ \E items \in NewItemLists(Range(listItems)) : addItems(items)
       \/ \E item \in Items : removeItem(item)
       \/ clearItems
       \/ \E items \in NewItemLists(Range(listItems)) : refreshItems(items)
       \/ \E content \in Contents : search(content)
       \/ \E y \in {15, 33}, k \in {<<"Left", "None">>, <<"Left", "Ctrl">>} :
             mousePressEvent(30, y, k[1], k[2], 0, 0)
       \/ \E k \in {<<"Down", "None">>, <<"End", "Ctrl">>} : keyPressEvent(k[1], k[2])

Spec == Init /\ [][Next]_vars

\* The list operations with sorting: the algorithms are registered, headers
\* are clicked
InitSort == InitWith({FALSE}, {c \in ColumnConfigs : c.titleHeight > 0})

NextSort ==
    /\ ~outOfRange
    /\ UNCHANGED pageVars
    /\ \/ \E items \in NewItemLists(Range(listItems)) : addItems(items)
       \/ \E item \in Items : removeItem(item)
       \/ clearItems
       \/ \E items \in NewItemLists(Range(listItems)) : refreshItems(items)
       \/ \E content \in Contents : search(content)
       \/ \E n \in AlgorithmCounts, c \in SortColumns, d \in BOOLEAN :
             setColumnSortingAlgorithms(n, c, d)
       \/ \E x \in {30, 80} : mousePressEvent(x, 5, "Left", "None", 0, 0)
       \/ mousePressEvent(30, 15, "Left", "None", 0, 0)

SpecSort == InitSort /\ [][NextSort]_vars

\* A list is set up once, then only scroll events arrive
Populate ==
    /\ listItems = <<>>
    /\ lastOp = "init"
    /\ \E items \in {<<1>>, <<1, 2, 3>>, <<3, 1>>} : addItems(items)

InitScroll == InitWith({FALSE}, ColumnConfigs)

NextScroll ==
    /\ ~outOfRange
    /\ UNCHANGED pageVars
    /\ \/ Populate
       \/ \E delta \in WheelDeltas : wheelEvent(delta)
       \/ \E key \in {"Home", "End", "PageUp", "PageDown"} : keyPressEvent(key, "Ctrl")
       \/ \E y \in MouseYs, ub \in UBChoices(renderItems), ubY \in UBChoices(renderItems) :
             mousePressEvent(95, y, "Left", "None", ub, ubY)
       \/ \E y \in MouseYs, ub \in UBChoices(renderItems) : mouseMoveDrag(y, ub)
       \/ \E x \in MouseXs : mouseMoveScrollArea(x)
       \/ mouseReleaseEvent
       \/ leaveEvent
       \/ hideScrollbar

SpecScroll == InitScroll /\ [][NextScroll]_vars

\* A list is set up once, then keys and presses on rows arrive
InitSelect == InitWith(BOOLEAN, ColumnConfigs)

NextSelect ==
    /\ ~outOfRange
    /\ UNCHANGED pageVars
    /\ \/ Populate
       \/ \E key \in Keys, modifiers \in Modifiers : keyPressEvent(key, modifiers)
       \/ \E y \in MouseYs, k \in PressKinds : mousePressEvent(30, y, k[1], k[2], 0, 0)
       \/ \E delta \in WheelDeltas : wheelEvent(delta)

SpecSelect == InitSelect /\ [][NextSelect]_vars

\* The list of the scrollbar example: 50 rows of 20 pixels in a view of 100
\* pixels without a title bar, after construction, setRowHeight(20) and
\* addItems of 50 items
JumpYs == {20, 50, 60, 65, 80}

InitJump ==
    /\ rowHeight = 20
    /\ scrollUnit = 20
    /\ height = 100
    /\ width = 100
    /\ titleHeight = 0
    /\ columnWidths = <<>>
    /\ columnVisibles = <<>>
    /\ isSingleSelect = FALSE
    /\ isKeepSelectWhenClickBlank = FALSE
    /\ searchAlgorithm = FALSE
    /\ listItems = [i \in 1..50 |-> i]
    /\ renderItems = [i \in 1..50 |-> i]
    /\ selectionItems = <<>>
    /\ lastSelectItem = NULL
    /\ lastHoverItem = NULL
    /\ lastHoverColumnIndex = -1
    /\ searchContent = ""
    /\ sortingAlgorithms = 0
    /\ sortingOrderes = <<>>
    /\ defaultSortingColumn = 0
    /\ defaultSortingOrder = FALSE
    /\ renderOffset = 0
    /\ oldRenderOffset = 0
    /\ mouseAtScrollArea = FALSE
    /\ mouseDragScrollbar = FALSE
    /\ hideScrollbarTimer = "NULL"
    /\ outOfRange = FALSE
    /\ lastOp = "addItems"
    /\ DPageIndicatorPrivate

NextJump ==
    /\ ~outOfRange
    /\ UNCHANGED pageVars
    /\ \/ \E key \in {"Home", "End", "PageUp", "PageDown"} : keyPressEvent(key, "Ctrl")
       \/ \E y \in JumpYs : mousePressEvent(95, y, "Left", "None", 0, 0)
       \/ \E y \in JumpYs : mouseMoveDrag(y, 0)
       \/ \E x \in MouseXs : mouseMoveScrollArea(x)
       \/ mouseReleaseEvent
       \/ leaveEvent
       \/ hideScrollbar

SpecJump == InitJump /\ [][NextJump]_vars

\* Engines that fill and empty again: items are added, removed and cleared
\* between row presses, the Down key and Ctrl+End
NextEmpty ==
    /\ ~outOfRange
    /\ UNCHANGED pageVars
    /\ \/ \E items \in NewItemLists(Range(listItems)) : addItems(items)
       \/ \E item \in Items : removeItem(item)
       \/ clearItems
       \/ \E y \in {15, 33} : mousePressEvent(30, y, "Left", "None", 0, 0)
       \/ \E k \in {<<"Down", "None">>, <<"End", "Ctrl">>} : keyPressEvent(k[1], k[2])

SpecEmpty == Init /\ [][NextEmpty]_vars

\* Lists that are replaced wholesale: rows are pressed and hovered, the view
\* is scrolled to its end and a default sort is registered between refreshes
NextRefresh ==
    /\ ~outOfRange
    /\ UNCHANGED pageVars
    /\ \/ Populate
       \/ \E items \in NewItemLists(Range(listItems)) : refreshItems(items)
       \/ \E y \in {15, 33}, k \in {<<"Left", "None">>, <<"Left", "Ctrl">>} :
             mousePressEvent(30, y, k[1], k[2], 0, 0)
       \/ \E y \in {15, 33} : mouseMoveHover(30, y)
       \/ keyPressEvent("End", "Ctrl")
       \/ \E c \in {-1, 1}, d \in BOOLEAN : setColumnSortingAlgorithms(2, c, d)

SpecRefresh == Init /\ [][NextRefresh]_vars

\* Presses in every region of a view with a title bar: a list is set up once
\* and comparators are registered, then the header, the scrollbar strip and
\* the rows are pressed
NextPress ==
    /\ ~outOfRange
    /\ UNCHANGED pageVars
    /\ \/ Populate
       \/ \E c \in {-1, 0} : setColumnSortingAlgorithms(2, c, FALSE)
       \/ \E x \in MouseXs, y \in {5, 15}, ub \in UBChoices(renderItems) :
             mousePressEvent(x, y, "Left", "None", ub, ub)
       \/ mouseReleaseEvent

SpecPress == InitSort /\ [][NextPress]_vars

\* The event loop delivers the timeout of a running QTimer: a hide timer that
\* stays active fires
SpecScrollFair == SpecScroll /\ WF_vars(hideScrollbar /\ UNCHANGED pageVars)

\* Column layouts: one to three columns under a title bar, each of a fixed
\* width or of auto width, all visible at first; hide flags are set and the
\* pointer moves over the rows
ColumnWidthChoices == {-1, 40, 120}

WidthConfigs ==
    {[titleHeight |-> 10, columnWidths |-> w, columnVisibles |-> [i \in 1..Len(w) |-> TRUE]] :
        w \in UNION {[1..n -> ColumnWidthChoices] : n \in 1..3}}

InitWidths == InitWith({FALSE}, WidthConfigs)

NextWidths ==
    /\ ~outOfRange
    /\ UNCHANGED pageVars
    /\ \/ Populate
       \/ \E flags \in [1..Len(columnWidths) -> BOOLEAN] : setColumnHideFlags(flags)
       \/ \E x \in MouseXs, y \in {15, 33} : mouseMoveHover(x, y)

SpecWidths == InitWidths /\ [][NextWidths]_vars

\* Lists whose selection goes stale: after a list is set up, rows are
\* selected by keys and presses, and items are filtered out by a search,
\* removed or cleared under the selection
NextStale ==
    /\ ~outOfRange
    /\ UNCHANGED pageVars
    /\ \/ Populate
       \/ \E content \in Contents : search(content)
       \/ \E item \in Items : removeItem(item)
       \/ clearItems
       \/ \E key \in Keys \ {"A"}, modifiers \in {"None", "Shift"} : keyPressEvent(key, modifiers)
       \/ \E y \in {15, 33}, modifiers \in {"None", "Shift"} :
             mousePressEvent(30, y, "Left", modifiers, 0, 0)

SpecStale == Init /\ [][NextStale]_vars

\* Range selection by keys in a view that shows two whole rows: 45 pixels
\* high, rows of 20, no title bar, multi-select. A list is set up once, a
\* plain press makes one row the anchor, then shift keys and the wheel arrive
InitRange ==
    /\ rowHeight = 20
    /\ scrollUnit = 20
    /\ height = 45
    /\ width = 100
    /\ titleHeight = 0
    /\ columnWidths = <<>>
    /\ columnVisibles = <<>>
    /\ isSingleSelect = FALSE
    /\ isKeepSelectWhenClickBlank = FALSE
    /\ searchAlgorithm = FALSE
    /\ listItems = <<>>
    /\ renderItems = <<>>
    /\ selectionItems = <<>>
    /\ lastSelectItem = NULL
    /\ lastHoverItem = NULL
    /\ lastHoverColumnIndex = -1
    /\ searchContent = ""
    /\ sortingAlgorithms = 0
    /\ sortingOrderes = <<>>
    /\ defaultSortingColumn = 0
    /\ defaultSortingOrder = FALSE
    /\ renderOffset = 0
    /\ oldRenderOffset = 0
    /\ mouseAtScrollArea = FALSE
    /\ mouseDragScrollbar = FALSE
    /\ hideScrollbarTimer = "NULL"
    /\ outOfRange = FALSE
    /\ lastOp = "init"
    /\ DPageIndicatorPrivate

RangeYs == {5, 25, 42}

NextRange ==
    /\ ~outOfRange
    /\ UNCHANGED pageVars
    /\ \/ Populate
       \/ \E y \in RangeYs : mousePressEvent(30, y, "Left", "None", 0, 0)
       \/ \E key \in Keys \ {"A"} : keyPressEvent(key, "Shift")
       \/ \E delta \in WheelDeltas : wheelEvent(delta)

SpecRange == InitRange /\ [][NextRange]_vars

\* A title bar that is taller than a row (setColumnTitleInfo with height 24,
\* rows of 20): a list is set up once, then the pointer is pressed and moved
\* at the top edge, in the title band, at its lower edge and over the rows
TallTitleConfigs ==
    {[titleHeight |-> 24, columnWidths |-> <<60, -1>>, columnVisibles |-> <<TRUE, TRUE>>]}

TitleYs == {0, 5, 24, 30}

\* Pointer x at the left edge, inside the first column and on the boundary
\* between the two columns
TitleXs == {0, 30, 60}

InitTitle == InitWith({FALSE}, TallTitleConfigs)

NextTitle ==
    /\ ~outOfRange
    /\ UNCHANGED pageVars
    /\ \/ Populate
       \/ \E y \in TitleYs, k \in PressKinds : mousePressEvent(30, y, k[1], k[2], 0, 0)
       \/ \E x \in TitleXs, y \in TitleYs : mouseMoveHover(x, y)
       \/ \E delta \in WheelDeltas : wheelEvent(delta)

SpecTitle == InitTitle /\ [][NextTitle]_vars

\* One column under a title bar whose comparator list is registered more
\* than once: items are added and removed, the header is clicked, and
\* setColumnSortingAlgorithms is called with one comparator each time
OneColumnConfigs ==
    {[titleHeight |-> 10, columnWidths |-> <<-1>>, columnVisibles |-> <<TRUE>>]}

InitConfig == InitWith({FALSE}, OneColumnConfigs)

NextConfig ==
    /\ ~outOfRange
    /\ UNCHANGED pageVars
    /\ \/ \E items \in NewItemLists(Range(listItems)) : addItems(items)
       \/ \E item \in Items : removeItem(item)
       \/ \E c \in {-1, 0}, d \in BOOLEAN : setColumnSortingAlgorithms(1, c, d)
       \/ mousePressEvent(30, 5, "Left", "None", 0, 0)

SpecConfig == InitConfig /\ [][NextConfig]_vars

\* ---------------------------------------------------------- DPageIndicator
\* The remainder of C++ integer division: the sign follows the dividend
CRem(a, b) == a - b * CDiv(a, b)

PageCounts == {-1, 0, 1, 2, 3, 4}
PageIndexes == -2..4

setPageCount(count) ==
    /\ lastOp' = "setPageCount"
    /\ pageCount' = count
    /\ UNCHANGED <<currentPage, viewVars>>

nextPage ==
    /\ lastOp' = "nextPage"
    /\ currentPage' = (IF pageCount = 0 THEN 0 ELSE CRem(currentPage + 1, pageCount))
    /\ UNCHANGED <<pageCount, viewVars>>

\* previousPage; the index is followed down to -MaxPagesBelow
previousPage ==
    LET page == (IF currentPage # 0 THEN currentPage ELSE pageCount) - 1 IN
    /\ page >= -MaxPagesBelow
    /\ lastOp' = "previousPage"
    /\ currentPage' = page
    /\ UNCHANGED <<pageCount, viewVars>>

setCurrentPage(index) ==
    /\ lastOp' = "setCurrentPage"
    /\ currentPage' = (IF index < -1 \/ index >= pageCount THEN currentPage ELSE index)
    /\ UNCHANGED <<pageCount, viewVars>>

\* A page indicator next to a list view that is left as constructed
NextIndicator ==
    \/ \E count \in PageCounts : setPageCount(count)
    \/ nextPage
    \/ previousPage
    \/ \E index \in PageIndexes : setCurrentPage(index)

SpecIndicator == Init /\ [][NextIndicator]_vars

\* ================================================================ properties
\* The largest offset the clamp allows: max(0, count * rowHeight - viewport)
OffsetBound == Max(0, Len(renderItems) * rowHeight - (height - titleHeight))

OffsetInBounds == 0 <= renderOffset /\ renderOffset <= OffsetBound

ScrollOps ==
    {"wheelEvent", "ctrlScrollPageUp", "ctrlScrollPageDown", "ctrlScrollToHome",
     "ctrlScrollToEnd", "mouseMoveDrag", "pressTrack"}

\* C1: after every scroll operation (wheel, Ctrl page/home/end, thumb drag,
\* track click) renderOffset lies between 0 and
\* max(0, count * rowHeight - (height - titleHeight)).
ScrollKeepsOffsetInBounds == lastOp \in ScrollOps => OffsetInBounds

\* C1 witness: a track click has moved a list longer than the view to its
\* bottom offset.
ScrolledByTrackClick ==
    lastOp = "pressTrack" /\ renderOffset > 0 /\ renderOffset = OffsetBound

\* The rows the closed range [floor(offset / rowHeight),
\* floor((offset + viewport) / rowHeight)] holds, cut to the valid indices
SliceRows ==
    {r \in 0..(Len(renderItems) - 1) :
        /\ CDiv(renderOffset, rowHeight) <= r
        /\ r <= CDiv(renderOffset + (height - titleHeight), rowHeight)}

\* C2 as stated: the rows painted are exactly the rows with index in
\* [floor(renderOffset / rowHeight), floor((renderOffset + viewport) / rowHeight)]
\* that are valid indices of renderItems.
PaintedRowsAreSlice == PaintedRows(renderItems, renderOffset) = SliceRows

\* C3 as stated: removeItem on an item leaves it out of the selection, so
\* that no removed item is still selected.
RemoveItemLeavesSelection ==
    [][lastOp' = "removeItem" =>
        (Range(listItems) \ Range(listItems')) \cap Range(selectionItems') = {}]_vars

\* C4: searching with the empty string after a non-empty search makes
\* renderItems the whole of allItems in insertion order, whatever sort is
\* active.
EmptySearchRestoresAll == lastOp = "searchReset" => renderItems = listItems

\* C4 witness: the reset has happened with an active sort under which the
\* insertion order is not the sorted order.
EmptySearchUnderSort ==
    /\ lastOp = "searchReset"
    /\ SortingEnabled(sortingAlgorithms, sortingOrderes)
    /\ defaultSortingColumn \in 0..(sortingAlgorithms - 1)
    /\ Len(listItems) >= 2
    /\ listItems # StdSort(listItems, defaultSortingColumn, defaultSortingOrder)
    /\ renderItems = listItems

\* The columns whose header a click can hit
ClickableColumns == {HeaderColumn(x) : x \in MouseXs} \ {-1}

\* C5 as stated: clicking the same column header twice in a row returns
\* that column's order flag, the active order and renderItems to their
\* values before the first click.
DoubleClickRestoresAll ==
    \A c \in ClickableColumns :
        LET twice == HeaderClick(HeaderClick(SortState, c), c) IN
        /\ twice.sortingOrderes[c + 1] = sortingOrderes[c + 1]
        /\ twice.defaultSortingOrder = defaultSortingOrder
        /\ twice.renderItems = renderItems

\* C5 amended: two clicks on the header of the active sort column return
\* that column's order flag; the active order returns when it equalled the
\* flag, and renderItems returns when it was in that column's order. Two
\* clicks on another column make it the active column with its flag and
\* the active order false.
DoubleClickOnActiveColumn ==
    \A c \in ClickableColumns :
        LET twice == HeaderClick(HeaderClick(SortState, c), c)
            flag == sortingOrderes[c + 1]
        IN
        /\ twice.defaultSortingColumn = c
        /\ c = defaultSortingColumn =>
              /\ twice.sortingOrderes = sortingOrderes
              /\ defaultSortingOrder = flag => twice.defaultSortingOrder = defaultSortingOrder
              /\ renderItems = StdSort(renderItems, c, flag) => twice.renderItems = renderItems
        /\ c # defaultSortingColumn =>
              /\ twice.sortingOrderes[c + 1] = FALSE
              /\ twice.defaultSortingOrder = FALSE
              /\ twice.renderItems = StdSort(renderItems, c, FALSE)

\* C5 witness: a header click has sorted two or more items by the second
\* column in descending order, and both columns can be clicked.
HeaderClickedDescending ==
    /\ lastOp = "pressTitle"
    /\ ClickableColumns = {0, 1}
    /\ defaultSortingColumn = 1
    /\ defaultSortingOrder
    /\ sortingOrderes[2]
    /\ Len(renderItems) >= 2
    /\ renderItems = StdSort(renderItems, 1, TRUE)

\* C6: in multi-select mode a plain left click on row i selects exactly
\* that row and makes it the anchor; a Shift+left click on row j with a
\* non-empty selection whose anchor is displayed selects exactly the rows
\* min(anchor, j)..max(anchor, j) and leaves the anchor where it was.
ShiftClickSelectsRange ==
    [][\A y \in MouseYs :
        LET i == RowAt(y, renderOffset)
            a == IndexOf(renderItems, lastSelectItem)
        IN
        (~isSingleSelect /\ ~isMouseAtTitleArea(y) /\ InRange(renderItems, i)) =>
            /\ mousePressEvent(30, y, "Left", "None", 0, 0) =>
                  /\ selectionItems' = <<At(renderItems, i)>>
                  /\ lastSelectItem' = At(renderItems, i)
            /\ (mousePressEvent(30, y, "Left", "Shift", 0, 0)
                    /\ selectionItems # <<>> /\ a # -1) =>
                  /\ selectionItems' = SubSeq(renderItems, Min(a, i) + 1, Max(a, i) + 1)
                  /\ lastSelectItem' = lastSelectItem
                  /\ lastOp' = "pressRowShift"]_vars

\* C6 witness: a Shift+click has selected three rows and the anchor is still
\* the first of them.
ShiftClickedThreeRows ==
    /\ lastOp = "pressRowShift"
    /\ ~isSingleSelect
    /\ Len(renderItems) = 3
    /\ selectionItems = renderItems
    /\ lastSelectItem = renderItems[1]

\* The pointer position on the track that the scrollbar mapping turns into
\* the fraction 0.5: (y - barHeight / 2 - titleHeight) / scrollAreaHeight
AtHalf(y) ==
    2 * (y - CDiv(getScrollbarHeight(renderItems, 0), 2) - titleHeight) = getScrollAreaHeight

\* C7 as stated: with a view of 100, rows of 20, no title and 50 items, a
\* track click that maps to the fraction 0.5 sets renderOffset to 450.
TrackClickAtHalfGives450 ==
    [][\A y \in JumpYs :
        (mousePressEvent(95, y, "Left", "None", 0, 0) /\ lastOp' = "pressTrack" /\ AtHalf(y))
            => renderOffset' = 450]_vars

\* C7 amended: with a view of 100, rows of 20, no title and 50 items, a
\* track click that maps to the fraction 0.5 sets renderOffset to 500, half
\* of the total height 1000 of the items, which lies within [0, 900].
TrackClickAtHalfGives500 ==
    [][\A y \in JumpYs :
        (mousePressEvent(95, y, "Left", "None", 0, 0) /\ lastOp' = "pressTrack" /\ AtHalf(y))
            => (renderOffset' = 500 /\ OffsetInBounds')]_vars

\* C7 witness: the track click has happened in the example's geometry.
TrackClickedAtHalf ==
    /\ lastOp = "pressTrack"
    /\ renderOffset = 500
    /\ Len(renderItems) = 50 /\ rowHeight = 20 /\ height = 100 /\ titleHeight = 0

\* C8: selectNextItem on an engine with no items leaves the selection
\* empty, lastSelectItem and renderOffset as they were, and indexes nothing.
SelectNextOnEmptyIsNoOp ==
    [][(lastOp' = "selectNextItem" /\ listItems = <<>> /\ renderItems = <<>>
            /\ selectionItems = <<>>) =>
        /\ selectionItems' = <<>>
        /\ lastSelectItem' = lastSelectItem
        /\ renderOffset' = renderOffset
        /\ ~outOfRange']_vars

\* C8 witness: selectNextItem has run on an engine with no items, nothing
\* selected and no anchor.
SelectNextRanOnEmpty ==
    /\ lastOp = "selectNextItem"
    /\ listItems = <<>> /\ renderItems = <<>>
    /\ selectionItems = <<>> /\ lastSelectItem = NULL
    /\ renderOffset = 0
    /\ ~outOfRange

ListOps == {"addItems", "removeItem", "clearItems", "refreshItems", "search", "searchReset"}

\* C9 as stated: after addItems, removeItem, clearItems, refreshItems and
\* search, renderOffset lies between 0 and
\* max(0, count * rowHeight - (height - titleHeight)).
ListOpsKeepOffsetInBounds == lastOp \in ListOps => OffsetInBounds

ShiftOps ==
    {"shiftSelectPageDown", "shiftSelectPageUp", "shiftSelectToEnd", "shiftSelectToHome",
     "shiftSelectToNext", "shiftSelectToPrev"}

\* C10: in single-select mode at most one item is selected after any
\* selection operation, and selectAllItems and the shiftSelect functions
\* leave the selection as it was.
SingleSelectHoldsOne ==
    /\ [](isSingleSelect => Len(selectionItems) <= 1)
    /\ [][(isSingleSelect /\ lastOp' \in ShiftOps \cup {"selectAllItems"}) =>
            (selectionItems' = selectionItems /\ lastSelectItem' = lastSelectItem)]_vars

\* C10 witness: Shift+End has run in single-select mode with the first of
\* three rows selected, and that row is still the selection.
ShiftEndInSingleSelect ==
    /\ isSingleSelect
    /\ lastOp = "shiftSelectToEnd"
    /\ Len(renderItems) = 3
    /\ selectionItems = <<renderItems[1]>>

\* Row index lies entirely inside the viewport at the given offset
RowInside(index, offset) ==
    /\ offset <= index * rowHeight
    /\ (index + 1) * rowHeight <= offset + (height - titleHeight)

MoveOps == {"selectNextItem", "selectPrevItem", "scrollPageDown", "scrollPageUp"}

\* C11 as stated: after selectNextItem, selectPrevItem, scrollPageDown or
\* scrollPageUp on a non-empty render list whose viewport is at least one
\* row tall, the selected row lies entirely inside the viewport.
MovedRowIsInside ==
    (/\ lastOp \in MoveOps
     /\ ~outOfRange
     /\ renderItems # <<>>
     /\ height - titleHeight >= rowHeight
     /\ Len(selectionItems) = 1
     /\ IndexOf(renderItems, selectionItems[1]) # -1)
        => RowInside(IndexOf(renderItems, selectionItems[1]), renderOffset)

\* C20 as stated: selectNextItem and selectPrevItem leave renderOffset
\* unchanged when the row they select is already entirely inside the
\* viewport, and otherwise move it to the nearest offset at which that row
\* is entirely visible: its top at the viewport top when the row is above,
\* its bottom at the viewport bottom when it is below.
MoveScrollsMinimally ==
    [][(/\ lastOp' \in {"selectNextItem", "selectPrevItem"}
        /\ ~outOfRange'
        /\ renderItems # <<>>
        /\ height - titleHeight >= rowHeight
        /\ Len(selectionItems') = 1
        /\ IndexOf(renderItems, selectionItems'[1]) # -1)
        => LET index == IndexOf(renderItems, selectionItems'[1]) IN
           renderOffset' =
              IF RowInside(index, renderOffset) THEN renderOffset
              ELSE IF index * rowHeight < renderOffset THEN index * rowHeight
              ELSE (index + 1) * rowHeight - (height - titleHeight)]_vars

\* s is in the order of the comparator of the column
IsOrdered(s, column, descendingSort) ==
    \A i, j \in 1..Len(s) : i < j => ~SortAlgorithm(column, s[j], s[i], descendingSort)

\* The items of a list that pass the active filter
PassFilter(items) ==
    IF searchContent = "" \/ ~searchAlgorithm THEN items
    ELSE SelectSeq(items, LAMBDA item : Matches(item, searchContent))

SortApplies ==
    /\ defaultSortingColumn # -1
    /\ SortingEnabled(sortingAlgorithms, sortingOrderes)

SearchShowsMatches ==
    [][\A content \in Contents \ {""} :
        (search(content) /\ searchAlgorithm) =>
            /\ renderItems' = SelectSeq(listItems, LAMBDA item : Matches(item, content))
            /\ listItems' = listItems
            /\ selectionItems' = selectionItems
            /\ lastSelectItem' = lastSelectItem]_vars

\* C14 witness: a search has replaced sorted rows by the matches in allItems
\* order, with a row selected.
SearchedSortedRows ==
    /\ lastOp = "search"
    /\ searchContent = "a" /\ searchAlgorithm
    /\ Len(renderItems) = 2
    /\ Len(listItems) = 3
    /\ selectionItems # <<>>
    /\ SortApplies /\ defaultSortingColumn \in 0..(sortingAlgorithms - 1)
    /\ ~IsOrdered(renderItems, defaultSortingColumn, defaultSortingOrder)

\* C15 as stated: when the default sort column is outside the range of the
\* registered algorithms, the sort of addItems and refreshItems is ignored:
\* renderItems keeps the order it has without the sort and the algorithm
\* list is not indexed out of range.
OutOfRangeSortIsIgnored ==
    [][(/\ lastOp' \in {"addItems", "refreshItems"}
        /\ defaultSortingColumn # -1
        /\ defaultSortingColumn \notin 0..(sortingAlgorithms - 1))
        => /\ ~outOfRange'
           /\ \E items \in NewItemLists(Range(listItems)) :
                 \/ renderItems' = renderItems \o PassFilter(items)
                 \/ renderItems' = PassFilter(items)]_vars

\* The new items that are sameAs the old anchor
AnchorMatches(items, pointer) == {i \in Range(items) : SameAs(i, pointer)}

\* C13: refreshItems(newItems) replaces allItems by newItems; afterwards the
\* selection is exactly the new items that are sameAs some previously
\* selected item, lastSelectItem and lastHoverItem are new items sameAs the
\* old anchors (unset when none matches), renderItems holds the new items
\* that pass the filter, in the order of the sort when one applies, and
\* renderOffset is within [0, max(0, count * rowHeight - viewport)].
RefreshRematches ==
    [][\A items \in NewItemLists(Range(listItems)) :
        (/\ refreshItems(items)
         /\ ~outOfRange'
         /\ Range(selectionItems) \subseteq Range(listItems)) =>
            /\ listItems' = items
            /\ Range(selectionItems') =
                  {i \in Range(items) : \E s \in Range(selectionItems) : SameAs(i, s)}
            /\ Len(selectionItems') = Cardinality(Range(selectionItems'))
            /\ IF AnchorMatches(items, lastSelectItem) = {}
               THEN lastSelectItem' = NULL
               ELSE lastSelectItem' \in AnchorMatches(items, lastSelectItem)
            /\ IF AnchorMatches(items, lastHoverItem) = {}
               THEN lastHoverItem' = NULL
               ELSE lastHoverItem' \in AnchorMatches(items, lastHoverItem)
            /\ Range(renderItems') = Range(PassFilter(items))
            /\ ~SortApplies => renderItems' = PassFilter(items)
            /\ SortApplies =>
                  IsOrdered(renderItems', defaultSortingColumn, defaultSortingOrder)
            /\ OffsetInBounds']_vars

\* C13 witness: a refresh has carried a selection and both anchors over to
\* new items, under a sort that reorders the new items.
RefreshedWithAnchors ==
    /\ lastOp = "refreshItems"
    /\ selectionItems # <<>>
    /\ lastSelectItem # NULL /\ lastHoverItem # NULL
    /\ Range(selectionItems) \subseteq Range(listItems)
    /\ SortApplies /\ Len(renderItems) = 2 /\ renderItems # listItems

ShownByScroll == ~mouseAtScrollArea /\ oldRenderOffset # renderOffset

\* The next paint draws no scrollbar
ScrollbarHidden == ~mouseAtScrollArea /\ oldRenderOffset = renderOffset

\* C17: after a change of the scroll position made while the pointer is off
\* the scrollbar strip, the hide timer is pending, and unless the pointer
\* enters the strip the scrollbar becomes hidden: hideScrollbar leaves
\* oldRenderOffset = renderOffset and mouseAtScrollArea = false.
ScrollbarEventuallyHides ==
    /\ [](ShownByScroll => hideScrollbarTimer = "active")
    /\ ShownByScroll ~> (ScrollbarHidden \/ mouseAtScrollArea)

\* C17 witness: the timer has fired after a scroll away from the top and
\* the scrollbar is hidden.
HiddenAfterScroll ==
    /\ lastOp = "hideScrollbar"
    /\ renderOffset > 0
    /\ ScrollbarHidden

\* C18 as stated: a burst of scroll events leads to exactly one hideScrollbar
\* callback: once the timer has called hideScrollbar it is no longer
\* pending.
TimerFiresOncePerBurst == lastOp = "hideScrollbar" => hideScrollbarTimer # "active"

\* The sum of the fixed widths of the visible columns
VisibleFixedTotal ==
    LET RECURSIVE Total(_)
        Total(S) == IF S = {} THEN 0
                    ELSE LET i == CHOOSE k \in S : TRUE IN columnWidths[i] + Total(S \ {i})
    IN Total({i \in 1..Len(columnWidths) : columnWidths[i] # -1 /\ columnVisibles[i]})

\* C19 as stated: no render width is ever negative.
RenderWidthsNotNegative ==
    \A i \in 1..Len(getRenderWidths) : getRenderWidths[i] >= 0

\* C19 amended: a visible auto-width column gets exactly the widget width
\* minus the sum of the visible fixed widths, also when that is negative; a
\* visible fixed column gets its width; a hidden column gets 0; and the
\* column found under a pointer is never one of a width that is not
\* positive.
RenderWidthsAsComputed ==
    /\ Len(getRenderWidths) = Len(columnWidths)
    /\ \A i \in 1..Len(columnWidths) :
          getRenderWidths[i] =
             IF ~columnVisibles[i] THEN 0
             ELSE IF columnWidths[i] = -1 THEN width - VisibleFixedTotal
             ELSE columnWidths[i]
    /\ \A x \in MouseXs :
          ColumnAt(x) < Len(getRenderWidths) => getRenderWidths[ColumnAt(x) + 1] > 0

\* C19 witness: the pointer has moved over a row of a layout whose auto
\* column computes negative while another auto column is hidden.
HoveredWithNegativeWidth ==
    /\ lastOp = "mouseMoveHover"
    /\ \E i \in 1..Len(columnWidths) : getRenderWidths[i] < 0
    /\ \E i \in 1..Len(columnWidths) : columnWidths[i] = -1 /\ ~columnVisibles[i]

\* No anchor: lastSelectItem is unset or is not in renderItems
AnchorMissing == lastSelectItem = NULL \/ IndexOf(renderItems, lastSelectItem) = -1

\* C21 as stated: a shift operation that runs in multi-select mode on a
\* non-empty render list without an anchor leaves exactly one item selected,
\* also when the selection was not empty.
ShiftWithoutAnchorSelectsOne ==
    [][(~isSingleSelect /\ renderItems # <<>> /\ AnchorMissing
          /\ lastOp' \in ShiftOps \cup {"pressRowShift"})
       => Len(selectionItems') = 1]_vars

ShiftMoveOps ==
    {"shiftSelectToNext", "shiftSelectToPrev", "shiftSelectPageDown", "shiftSelectPageUp"}

\* The first render item is the selection and the anchor, the view is at the
\* top and no access went out of range
FirstItemSelected ==
    /\ selectionItems' = <<renderItems[1]>>
    /\ lastSelectItem' = renderItems[1]
    /\ renderOffset' = 0
    /\ ~outOfRange'

\* C22 as stated: with a non-empty render list and an empty selection,
\* selectNextItem, selectPrevItem, their page variants and their shift
\* variants select the first render item, make it the anchor and set
\* renderOffset to 0.
MoveOnEmptySelectionSelectsFirst ==
    [][(renderItems # <<>> /\ selectionItems = <<>> /\ lastOp' \in MoveOps \cup ShiftMoveOps)
       => FirstItemSelected]_vars

\* C22 amended: selectNextItem, selectPrevItem and their page variants do
\* so in both modes, the shift variants do so in multi-select mode; in
\* single-select mode the shift variants leave the empty selection, the
\* anchor and renderOffset as they are.
MoveOnEmptySelectionByMode ==
    /\ [][(renderItems # <<>> /\ selectionItems = <<>>
             /\ (lastOp' \in MoveOps \/ (lastOp' \in ShiftMoveOps /\ ~isSingleSelect)))
          => FirstItemSelected]_vars
    /\ [][(renderItems # <<>> /\ selectionItems = <<>>
             /\ lastOp' \in ShiftMoveOps /\ isSingleSelect)
          => UNCHANGED <<selVars, renderOffset, outOfRange>>]_vars

\* C22 witness: PageUp has run on a scrolled view of three rows and left the
\* first row selected with the view back at the top.
PageUpSelectedFirstRow ==
    /\ lastOp = "scrollPageUp"
    /\ Len(renderItems) = 3
    /\ oldRenderOffset > 0
    /\ renderOffset = 0
    /\ selectionItems = <<renderItems[1]>>
    /\ lastSelectItem = renderItems[1]

\* C23 as stated: the hide timer is fire-once: after it has called
\* hideScrollbar, a step that does not change the scroll position leaves no
\* timer pending, so hideScrollbar is not called again before the next
\* re-arm.
TimerIsFireOnce ==
    [][(lastOp = "hideScrollbar" /\ renderOffset' = renderOffset)
       => hideScrollbarTimer' # "active"]_vars

\* The selection is a non-empty run of consecutive render rows that holds
\* the anchor
ContiguousWithAnchor ==
    /\ selectionItems # <<>>
    /\ \E a \in 1..Len(renderItems), b \in 1..Len(renderItems) :
          selectionItems = SubSeq(renderItems, a, b)
    /\ lastSelectItem \in Range(selectionItems)

\* C24 as stated: starting from a single selected anchor row in multi-select
\* mode, after Shift+Up, Shift+Down, Shift+PageUp, Shift+PageDown,
\* Shift+Home and Shift+End the selection is a non-empty contiguous range of
\* renderItems that contains the anchor, and the anchor does not change.
ShiftKeysKeepRangeAroundAnchor ==
    /\ []((lastOp \in ShiftOps /\ renderItems # <<>>) => ContiguousWithAnchor)
    /\ [][(selectionItems # <<>> /\ lastOp' \in ShiftOps)
          => lastSelectItem' = lastSelectItem]_vars

\* No item occurs twice in the list
NoDuplicates(s) == \A i \in 1..Len(s), j \in 1..Len(s) : i # j => s[i] # s[j]

\* C25: after addItems, removeItem, clearItems, refreshItems, search and
\* header-click sorts, renderItems holds only items of allItems, each at
\* most once, and a header-click sort changes the order of renderItems only.
RenderIsViewOfAllItems ==
    /\ [](~outOfRange => /\ NoDuplicates(listItems)
                         /\ Range(renderItems) \subseteq Range(listItems)
                         /\ NoDuplicates(renderItems))
    /\ [][lastOp' = "pressTitle" =>
            /\ Range(renderItems') = Range(renderItems)
            /\ Len(renderItems') = Len(renderItems)]_vars

\* C25 witness: a header click has put the two rows that pass the filter,
\* out of three items, in descending order.
SortedFilteredView ==
    /\ lastOp = "pressTitle"
    /\ searchContent = "a"
    /\ Len(listItems) = 3
    /\ Len(renderItems) = 2
    /\ renderItems[1] > renderItems[2]

\* C26 as stated: keyboard navigation never indexes renderItems out of
\* range, also when selected items are no longer in renderItems.
KeyNavigationStaysInRange == lastOp \in MoveOps \cup ShiftOps => ~outOfRange

PressRowOps == {"pressRow", "pressRowCtrl", "pressRowShift", "pressRowRight", "pressBlank"}

\* C27 as stated: a pointer press in the row-content region never indexes
\* renderItems out of range, also with a title bar and the pointer at y = 0
\* or y = titleHeight.
PressStaysInRange == lastOp \in PressRowOps => ~outOfRange

\* C28 as stated: the column index of a hover notification is a valid
\* column index, also for x on the boundary between two columns and for
\* x = 0.
HoverColumnIsValid ==
    lastOp = "mouseMoveHover" =>
        (lastHoverColumnIndex >= 0 /\ lastHoverColumnIndex < Len(columnWidths))

\* C29 as stated: after any number of calls of setColumnSortingAlgorithms,
\* each with as many algorithms as there are columns, the order-flag list
\* has exactly that many entries, so sorting stays enabled.
OrderFlagsMatchColumns ==
    sortingAlgorithms # 0 =>
        /\ Len(sortingOrderes) = Len(columnWidths)
        /\ SortingEnabled(sortingAlgorithms, sortingOrderes)

\* C30 as stated: after setPageCount, setCurrentPage, nextPage and
\* previousPage the current page index satisfies -1 <= currentPage <
\* pageCount, and a setCurrentPage with an index below -1 or at or above
\* pageCount leaves currentPage unchanged.
CurrentPageInRange ==
    /\ [](currentPage >= -1 /\ currentPage < pageCount)
    /\ [][\A index \in PageIndexes :
            (setCurrentPage(index) /\ (index < -1 \/ index >= pageCount))
               => currentPage' = currentPage]_vars

====
